---- MODULE Spec2Model ----
(***************************************************************************)
(* A model of thriftcli's two text engines:                                *)
(*   - ThriftParser (src/thrift_cli/thrift_parser.py): the top-level comma *)
(*     splitter, the field/endpoint reconstruction and the lookups;        *)
(*   - the request body converter                                          *)
(*     (src/thriftcli/java_thrift_request_body_converter.py).              *)
(* Python strings are sequences of one-character strings.  Python indices  *)
(* are 0-based and are kept 0-based in the variables that hold them.       *)
(***************************************************************************)
EXTENDS Integers, Sequences, FiniteSets, TLC

VARIABLES
    \* ThriftParser._split_fields_string: its argument and its locals
    fields_string, i, bracket_depth, last_index, field_strings, spc,
    \* convert: the argument of the outermost call, the stack of active
    \* convert calls, the outcome of the outermost call
    request_body, stack, cresult, cpc,
    \* _parse_fields_from_struct_definition: the definition and its result
    definition, fields, fpc,
    \* the file at thrift_path; ThriftParser's _thrift_content and _result;
    \* the outcome of the last lookup
    thrift_file, thrift_content, parser_result, lookup, ppc

vars == <<fields_string, i, bracket_depth, last_index, field_strings, spc,
          request_body, stack, cresult, cpc,
          definition, fields, fpc,
          thrift_file, thrift_content, parser_result, lookup, ppc>>

splitVars == <<fields_string, i, bracket_depth, last_index, field_strings, spc>>
convertVars == <<request_body, stack, cresult, cpc>>
fieldsVars == <<definition, fields, fpc>>
parserVars == <<thrift_file, thrift_content, parser_result, lookup, ppc>>

----------------------------------------------------------------------------
(* Bounds of the model *)

\* longest enumerated parameter-list string given to _split_fields_string
MaxLen == 5

\* every string over alphabet of length at most n
StringsUpTo(alphabet, n) == UNION {[1..k -> alphabet] : k \in 0..n}

----------------------------------------------------------------------------
(* Python's str operations *)

\* s[a:b] for 0 <= a, 0 <= b <= len(s)
PySlice(s, a, b) == SubSeq(s, a + 1, b)

\* s[a:]
PySliceFrom(s, a) == SubSeq(s, a + 1, Len(s))

\* s.find(c): the 0-based index of the first c, -1 when there is none
PyFind(s, c) ==
    IF \E p \in 1..Len(s) : s[p] = c
    THEN (CHOOSE p \in 1..Len(s) : s[p] = c /\ \A q \in 1..(p - 1) : s[q] # c) - 1
    ELSE -1

\* s.rfind(c): the 0-based index of the last c, -1 when there is none
PyRFind(s, c) ==
    IF \E p \in 1..Len(s) : s[p] = c
    THEN (CHOOSE p \in 1..Len(s) : s[p] = c /\ \A q \in (p + 1)..Len(s) : s[q] # c) - 1
    ELSE -1

----------------------------------------------------------------------------
(* ThriftParser._split_fields_string, one action per iteration of its loop *)

\* the example parameter list a:list<map<string,i32>>,b:2
ExampleFieldsString ==
    <<"a", ":", "l", "i", "s", "t", "<", "m", "a", "p", "<", "s", "t", "r",
      "i", "n", "g", ",", "i", "3", "2", ">", ">", ",", "b", ":", "2">>

SplitAlphabet == {"a", ",", "<", ">"}

SplitInputs == StringsUpTo(SplitAlphabet, MaxLen) \cup {ExampleFieldsString}

\* line 108: elif char == ',' and bracket_depth == 0
IsSeparator_AnyDepth(char, depth) == char = ","

IsSeparator(char, depth) == char = "," /\ depth = 0

\* line 111: last_index = i + 1
NextLastIndex_KeepComma(idx) == idx

NextLastIndex(idx) == idx + 1

SplitChar == fields_string[i + 1]

ScanOpen ==
    /\ spc = "loop" /\ i < Len(fields_string)
    /\ SplitChar = "<"
    /\ bracket_depth' = bracket_depth + 1
    /\ i' = i + 1
    /\ UNCHANGED <<fields_string, last_index, field_strings, spc>>
    /\ UNCHANGED <<convertVars, fieldsVars, parserVars>>

ScanClose ==
    /\ spc = "loop" /\ i < Len(fields_string)
    /\ SplitChar # "<" /\ SplitChar = ">"
    /\ bracket_depth' = bracket_depth - 1
    /\ i' = i + 1
    /\ UNCHANGED <<fields_string, last_index, field_strings, spc>>
    /\ UNCHANGED <<convertVars, fieldsVars, parserVars>>

ScanSeparator ==
    /\ spc = "loop" /\ i < Len(fields_string)
    /\ SplitChar # "<" /\ SplitChar # ">"
    /\ IsSeparator(SplitChar, bracket_depth)
    /\ field_strings' = Append(field_strings, PySlice(fields_string, last_index, i))
    /\ last_index' = NextLastIndex(i)
    /\ i' = i + 1
    /\ UNCHANGED <<fields_string, bracket_depth, spc>>
    /\ UNCHANGED <<convertVars, fieldsVars, parserVars>>

ScanOther ==
    /\ spc = "loop" /\ i < Len(fields_string)
    /\ SplitChar # "<" /\ SplitChar # ">"
    /\ ~IsSeparator(SplitChar, bracket_depth)
    /\ i' = i + 1
    /\ UNCHANGED <<fields_string, bracket_depth, last_index, field_strings, spc>>
    /\ UNCHANGED <<convertVars, fieldsVars, parserVars>>

\* lines 112-114: the text after the last separator is the last piece
SplitReturn ==
    /\ spc = "loop" /\ i = Len(fields_string)
    /\ field_strings' = Append(field_strings, PySliceFrom(fields_string, last_index))
    /\ spc' = "done"
    /\ UNCHANGED <<fields_string, i, bracket_depth, last_index>>
    /\ UNCHANGED <<convertVars, fieldsVars, parserVars>>

----------------------------------------------------------------------------
(* The states of the engines that a specification leaves idle *)

SplitIdle ==
    /\ fields_string = <<>> /\ i = 0 /\ bracket_depth = 0 /\ last_index = 0
    /\ field_strings = <<>> /\ spc = "idle"

ConvertIdle ==
    /\ request_body = <<>> /\ stack = <<>> /\ cresult = [ok |-> FALSE, t |-> "none"]
    /\ cpc = "idle"

FieldsIdle ==
    /\ definition = <<>> /\ fields = <<>> /\ fpc = "idle"

ParserIdle ==
    /\ thrift_file = <<>> /\ thrift_content = <<>> /\ parser_result = [t |-> "None"]
    /\ lookup = [op |-> "none"] /\ ppc = "idle"

----------------------------------------------------------------------------
(* Specification of the splitter *)

SplitInit ==
    /\ fields_string \in SplitInputs
    /\ i = 0 /\ bracket_depth = 0 /\ last_index = 0 /\ field_strings = <<>>
    /\ spc = "loop"
    /\ ConvertIdle /\ FieldsIdle /\ ParserIdle

SplitNext == ScanOpen \/ ScanClose \/ ScanSeparator \/ ScanOther \/ SplitReturn

SpecSplit == SplitInit /\ [][SplitNext]_vars

----------------------------------------------------------------------------
(* Properties of the splitter *)

\* the number of c among the first n characters of s
CountIn(s, c, n) == Cardinality({p \in 1..n : s[p] = c})

\* the running depth after the first n characters: +1 on '<', -1 on '>'
RunningDepth(s, n) == CountIn(s, "<", n) - CountIn(s, ">", n)

\* the (1-based) positions of the commas met at running depth zero
TopLevelCommas(s) == {p \in 1..Len(s) : s[p] = "," /\ RunningDepth(s, p - 1) = 0}

\* s cut at the positions of cuts, the cut characters dropped
PiecesAt(s, cuts) ==
    LET n == Cardinality(cuts)
        nth(k) == CHOOSE p \in cuts : Cardinality({q \in cuts : q < p}) = k - 1
        lo(k) == IF k = 1 THEN 1 ELSE nth(k - 1) + 1
        hi(k) == IF k = n + 1 THEN Len(s) ELSE nth(k) - 1
    IN  [k \in 1..(n + 1) |-> SubSeq(s, lo(k), hi(k))]

RECURSIVE JoinWith(_, _)
JoinWith(pieces, sep) ==
    IF Len(pieces) = 0 THEN <<>>
    ELSE IF Len(pieces) = 1 THEN pieces[1]
    ELSE pieces[1] \o <<sep>> \o JoinWith(Tail(pieces), sep)

ExamplePieces ==
    << <<"a", ":", "l", "i", "s", "t", "<", "m", "a", "p", "<", "s", "t", "r",
         "i", "n", "g", ",", "i", "3", "2", ">", ">">>,
       <<"b", ":", "2">> >>

\* C1: _split_fields_string cuts at a comma if and only if the running depth
\* (+1 on '<', -1 on '>', from 0) is exactly zero at that comma: a step of the
\* scan adds a piece exactly when it is on such a comma, the returned pieces
\* are the text between those commas, so that no comma at positive depth
\* separates two pieces, and a:list<map<string,i32>>,b:2 yields its two pieces.
C1_CutsExactlyAtDepthZero ==
    /\ [][(spc = "loop" /\ i < Len(fields_string)) =>
            ((Len(field_strings') = Len(field_strings) + 1)
               <=> (fields_string[i + 1] = ","
                      /\ RunningDepth(fields_string, i) = 0))]_vars
    /\ [](spc = "done" =>
            field_strings = PiecesAt(fields_string, TopLevelCommas(fields_string)))
    /\ []((spc = "done" /\ fields_string = ExampleFieldsString) =>
            field_strings = ExamplePieces)

\* the example has been split: one comma inside angle brackets, one outside
C1_Witness ==
    /\ spc = "done" /\ fields_string = ExampleFieldsString
    /\ Len(field_strings) = 2
    /\ \E p \in 1..Len(fields_string) :
          fields_string[p] = "," /\ RunningDepth(fields_string, p - 1) > 0

\* C10: _split_fields_string loses and invents no text: the result is never
\* empty, its pieces joined with ',' are the input, and there is one more
\* piece than there are commas met at depth zero.
C10_SplitLosesNothing ==
    spc = "done" =>
        /\ Len(field_strings) >= 1
        /\ JoinWith(field_strings, ",") = fields_string
        /\ Len(field_strings) = 1 + Cardinality(TopLevelCommas(fields_string))

\* a split of a text with unbalanced brackets that has both kinds of comma
C10_Witness ==
    /\ spc = "done"
    /\ Len(field_strings) >= 2
    /\ RunningDepth(fields_string, Len(fields_string)) # 0
    /\ \E p \in 1..Len(fields_string) :
          fields_string[p] = "," /\ RunningDepth(fields_string, p - 1) # 0

----------------------------------------------------------------------------
(* Values of an argument mapping: int, str, list and dict *)

IntValue(n) == [t |-> "int", n |-> n]
StrValue(s) == [t |-> "str", s |-> s]
ListValue(items) == [t |-> "list", items |-> items]
DictValue(m) == [t |-> "dict", m |-> m]

EmptyDict == [k \in {} |-> 0]

\* d[k] = v of a dict: a later write of the same key replaces the earlier one
DictSet(d, k, v) == (k :> v) @@ d

----------------------------------------------------------------------------
(* json.loads on the texts the model builds.  Their characters are letters, *)
(* digits, ':', ',', '(', ')', '[' and ']', without white space, quotes,    *)
(* signs, '.' or braces, and no substring of an input is a number with an   *)
(* exponent: the JSON texts among them are the integers and the arrays.     *)

Digits == {"0", "1", "2", "3", "4", "5", "6", "7", "8", "9"}

DigitValue(c) ==
    CASE c = "0" -> 0 [] c = "1" -> 1 [] c = "2" -> 2 [] c = "3" -> 3
      [] c = "4" -> 4 [] c = "5" -> 5 [] c = "6" -> 6 [] c = "7" -> 7
      [] c = "8" -> 8 [] c = "9" -> 9

\* JSON's int: 0, or digits that do not start with 0
IsJsonInt(s) ==
    /\ Len(s) >= 1
    /\ \A p \in 1..Len(s) : s[p] \in Digits
    /\ (Len(s) > 1 => s[1] # "0")

RECURSIVE DecimalValue(_)
DecimalValue(s) ==
    IF Len(s) = 0 THEN 0
    ELSE 10 * DecimalValue(SubSeq(s, 1, Len(s) - 1)) + DigitValue(s[Len(s)])

\* the depth of square brackets after the first n characters
ArrayDepth(s, n) == CountIn(s, "[", n) - CountIn(s, "]", n)

\* the elements' texts of the array body s: s cut at its commas outside brackets
JsonElements(s) ==
    PiecesAt(s, {p \in 1..Len(s) : s[p] = "," /\ ArrayDepth(s, p - 1) = 0})

RECURSIVE IsJson(_)
IsJson(s) ==
    \/ IsJsonInt(s)
    \/ /\ Len(s) >= 2 /\ s[1] = "[" /\ s[Len(s)] = "]"
       /\ LET body == SubSeq(s, 2, Len(s) - 1)
          IN  \/ body = <<>>
              \/ \A k \in 1..Len(JsonElements(body)) : IsJson(JsonElements(body)[k])

\* json.loads(s) for a text with IsJson(s)
RECURSIVE JsonLoads(_)
JsonLoads(s) ==
    IF IsJsonInt(s) THEN IntValue(DecimalValue(s))
    ELSE LET body == SubSeq(s, 2, Len(s) - 1)
             parts == JsonElements(body)
         IN  IF body = <<>> THEN ListValue(<<>>)
             ELSE ListValue([k \in 1..Len(parts) |-> JsonLoads(parts[k])])

----------------------------------------------------------------------------
(* java_thrift_request_body_converter *)

\* s[a:b] with Python's reading of a negative or too large end
PySliceTo(s, a, b) ==
    LET e == IF b < 0 THEN (IF Len(s) + b < 0 THEN 0 ELSE Len(s) + b)
             ELSE (IF b > Len(s) THEN Len(s) ELSE b)
    IN  SubSeq(s, a + 1, e)

\* _clean with the first ')' taken for the last
_clean_FirstClose(body) ==
    LET colon_index == PyFind(body, ":")
        open_paren_index == PyFind(body, "(")
        close_paren_index == PyFind(body, ")")
    IN  IF colon_index < 0 \/ open_paren_index < 0 THEN body
        ELSE IF open_paren_index < colon_index
             THEN IF close_paren_index < 0 THEN body
                  ELSE PySlice(body, open_paren_index + 1, close_paren_index)
             ELSE body

\* index and rindex raise ValueError where find and rfind give -1, and the
\* except clause then leaves the text as it was
_clean(body) ==
    LET colon_index == PyFind(body, ":")
        open_paren_index == PyFind(body, "(")
        close_paren_index == PyRFind(body, ")")
    IN  IF colon_index < 0 \/ open_paren_index < 0 THEN body
        ELSE IF open_paren_index < colon_index
             THEN IF close_paren_index < 0 THEN body
                  ELSE PySlice(body, open_paren_index + 1, close_paren_index)
             ELSE body

\* ThriftParser.split_fields_string(text, opens, closes, delim): the depth
\* rises on a character of opens and falls on one of closes, and the text is
\* cut at each delim met at depth zero
split_fields_string(text, opens, closes, delim) ==
    LET depth(n) == Cardinality({p \in 1..n : text[p] \in opens})
                      - Cardinality({p \in 1..n : text[p] \in closes})
    IN  PiecesAt(text, {p \in 1..Len(text) : text[p] = delim /\ depth(p - 1) = 0})

_get_key(field_string) ==
    LET colon_index == PyFind(field_string, ":")
        open_paren_index == PyFind(PySliceTo(field_string, 0, colon_index), "(")
    IN  PySliceTo(field_string, open_paren_index + 1, colon_index)

\* _get_value, line 83: index(':') raises ValueError when there is no ':'
HasColon(field_string) == PyFind(field_string, ":") >= 0

\* _get_value, line 84
ValueString(field_string) ==
    PySliceFrom(field_string, PyFind(field_string, ":") + 1)

\* _convert_value_string, lines 101-102: neither index('(') nor rindex(')') raises
HasParens(value_string) ==
    PyFind(value_string, "(") >= 0 /\ PyRFind(value_string, ")") >= 0

\* the text handed down with its parentheses kept
InnerValueString_KeepParens(value_string) ==
    PySlice(value_string, PyFind(value_string, "("), PyRFind(value_string, ")") + 1)

\* _convert_value_string, line 103
InnerValueString(value_string) ==
    PySlice(value_string, PyFind(value_string, "(") + 1, PyRFind(value_string, ")"))

\* _convert_value_string, lines 105-109: json.loads, and the text itself when
\* json.loads raises ValueError
LoadsOrText(value_string) ==
    IF IsJson(value_string) THEN JsonLoads(value_string) ELSE StrValue(value_string)

\* the start of a call convert(text): lines 14-15, and the dict of line 52 empty
ConvertFrame(text) ==
    [arg |-> text,
     cleaned |-> _clean(text),
     field_strings |-> split_fields_string(_clean(text), {"(", "["}, {")", "]"}, ","),
     idx |-> 1,
     acc |-> EmptyDict]

Top == stack[Len(stack)]
Caller == stack[Len(stack) - 1]
TopField == Top.field_strings[Top.idx]
CallerField == Caller.field_strings[Caller.idx]
AtField == cpc = "run" /\ Top.idx <= Len(Top.field_strings)

\* the caller's frame once the value of its current field is known
CallerWith(value) ==
    [Caller EXCEPT !.acc = DictSet(Caller.acc, _get_key(CallerField), value),
                   !.idx = Caller.idx + 1]

\* convert(request_body) is called
ConvertCall ==
    /\ cpc = "call"
    /\ stack' = <<ConvertFrame(request_body)>>
    /\ cpc' = "run"
    /\ UNCHANGED <<request_body, cresult>>
    /\ UNCHANGED <<splitVars, fieldsVars, parserVars>>

\* a field whose value has no '(' or no ')': lines 105-109
FieldPlain ==
    /\ AtField /\ HasColon(TopField) /\ ~HasParens(ValueString(TopField))
    /\ stack' = [stack EXCEPT ![Len(stack)] =
                    [Top EXCEPT !.acc = DictSet(Top.acc, _get_key(TopField),
                                                LoadsOrText(ValueString(TopField))),
                                !.idx = Top.idx + 1]]
    /\ UNCHANGED <<request_body, cresult, cpc>>
    /\ UNCHANGED <<splitVars, fieldsVars, parserVars>>

\* convert called again on the field string itself
FieldNested_WholeField ==
    /\ AtField /\ HasColon(TopField) /\ HasParens(ValueString(TopField))
    /\ stack' = Append(stack, ConvertFrame(TopField))
    /\ UNCHANGED <<request_body, cresult, cpc>>
    /\ UNCHANGED <<splitVars, fieldsVars, parserVars>>

\* a field whose value has a '(' and a ')': line 104 calls convert
FieldNested ==
    /\ AtField /\ HasColon(TopField) /\ HasParens(ValueString(TopField))
    /\ stack' = Append(stack, ConvertFrame(InnerValueString(ValueString(TopField))))
    /\ UNCHANGED <<request_body, cresult, cpc>>
    /\ UNCHANGED <<splitVars, fieldsVars, parserVars>>

\* a field without ':' in the outermost call: the ValueError of line 83 leaves convert
RaiseTop ==
    /\ AtField /\ ~HasColon(TopField) /\ Len(stack) = 1
    /\ stack' = <<>>
    /\ cresult' = [ok |-> FALSE, t |-> "ValueError"]
    /\ cpc' = "done"
    /\ UNCHANGED request_body
    /\ UNCHANGED <<splitVars, fieldsVars, parserVars>>

\* a field without ':' in a nested call: the ValueError of line 83 leaves the
\* call of line 104, which is inside the try of line 100, and the except of
\* line 105 gives the caller's field the value of lines 106-109 for the text
\* of line 103
RaiseNested ==
    /\ AtField /\ ~HasColon(TopField) /\ Len(stack) > 1
    /\ stack' = [SubSeq(stack, 1, Len(stack) - 1) EXCEPT ![Len(stack) - 1] =
                    CallerWith(LoadsOrText(Top.arg))]
    /\ UNCHANGED <<request_body, cresult, cpc>>
    /\ UNCHANGED <<splitVars, fieldsVars, parserVars>>

\* the outermost call returns its dict
ReturnTop ==
    /\ cpc = "run" /\ Top.idx > Len(Top.field_strings) /\ Len(stack) = 1
    /\ stack' = <<>>
    /\ cresult' = [ok |-> TRUE, t |-> "dict", m |-> Top.acc]
    /\ cpc' = "done"
    /\ UNCHANGED request_body
    /\ UNCHANGED <<splitVars, fieldsVars, parserVars>>

\* a nested call returns its dict, the value of the caller's field
ReturnNested ==
    /\ cpc = "run" /\ Top.idx > Len(Top.field_strings) /\ Len(stack) > 1
    /\ stack' = [SubSeq(stack, 1, Len(stack) - 1) EXCEPT ![Len(stack) - 1] =
                    CallerWith(DictValue(Top.acc))]
    /\ UNCHANGED <<request_body, cresult, cpc>>
    /\ UNCHANGED <<splitVars, fieldsVars, parserVars>>

----------------------------------------------------------------------------
(* Specification of the converter *)

\* longest enumerated request body
MaxBodyLen == 5

ConvertAlphabet == {"a", "1", ":", "(", ")", ","}

\* Req(inner:Inner(x:1,y:2))
ExampleNested ==
    <<"R", "e", "q", "(", "i", "n", "n", "e", "r", ":", "I", "n", "n", "e", "r",
      "(", "x", ":", "1", ",", "y", ":", "2", ")", ")">>

\* Req(ids:[1,2,3],note:hi)
ExampleList ==
    <<"R", "e", "q", "(", "i", "d", "s", ":", "[", "1", ",", "2", ",", "3", "]",
      ",", "n", "o", "t", "e", ":", "h", "i", ")">>

\* badfield
ExampleBadField == <<"b", "a", "d", "f", "i", "e", "l", "d">>

\* a:B(c:D(x:10))
ExampleDeep ==
    <<"a", ":", "B", "(", "c", ":", "D", "(", "x", ":", "1", "0", ")", ")">>

\* a:B(c:D(bad))
ExampleDeepBad ==
    <<"a", ":", "B", "(", "c", ":", "D", "(", "b", "a", "d", ")", ")">>

ConvertInputs ==
    StringsUpTo(ConvertAlphabet, MaxBodyLen)
        \cup {ExampleNested, ExampleList, ExampleBadField, ExampleDeep, ExampleDeepBad}

ConvertInit ==
    /\ request_body \in ConvertInputs
    /\ stack = <<>>
    /\ cresult = [ok |-> FALSE, t |-> "none"]
    /\ cpc = "call"
    /\ SplitIdle /\ FieldsIdle /\ ParserIdle

ConvertNext ==
    \/ ConvertCall \/ FieldPlain \/ FieldNested
    \/ RaiseTop \/ RaiseNested \/ ReturnTop \/ ReturnNested

SpecConvert == ConvertInit /\ [][ConvertNext]_vars

\* the request bodies of the specification with fairness
FairAlphabet == {"a", ":", "(", ")", ","}

ConvertFairInputs ==
    StringsUpTo(FairAlphabet, MaxBodyLen)
        \cup {ExampleNested, ExampleList, ExampleBadField, ExampleDeep, ExampleDeepBad}

ConvertFairInit ==
    /\ request_body \in ConvertFairInputs
    /\ stack = <<>>
    /\ cresult = [ok |-> FALSE, t |-> "none"]
    /\ cpc = "call"
    /\ SplitIdle /\ FieldsIdle /\ ParserIdle

\* convert is synchronous: a call that has started runs until it returns or raises
SpecConvertFair == ConvertFairInit /\ [][ConvertNext]_vars /\ WF_vars(ConvertNext)

----------------------------------------------------------------------------
(* Properties of the converter *)

\* the (1-based) positions of c in s
Positions(s, c) == {p \in 1..Len(s) : s[p] = c}

First(ps) == CHOOSE p \in ps : \A q \in ps : p <= q
Last(ps) == CHOOSE p \in ps : \A q \in ps : q <= p

\* the text strictly between the first '(' and the last ')' of s
BetweenParens(s) ==
    SubSeq(s, First(Positions(s, "(")) + 1, Last(Positions(s, ")")) - 1)

\* s has a ':' and a '(' and its first '(' comes before its first ':'
WrapperBeforeColon(s) ==
    /\ Positions(s, ":") # {} /\ Positions(s, "(") # {}
    /\ First(Positions(s, "(")) < First(Positions(s, ":"))

\* the step of FieldNested: a nested call of convert starts
NestedCallStarts == cpc = "run" /\ Len(stack) >= 1 /\ Len(stack') = Len(stack) + 1

\* the step of ReturnNested or RaiseNested: a nested call of convert ends
NestedCallEnds == cpc = "run" /\ Len(stack) > 1 /\ Len(stack') = Len(stack) - 1

\* the dict of Req(inner:Inner(x:1,y:2))
ExampleNestedResult ==
    (<<"i", "n", "n", "e", "r">> :>
        DictValue((<<"x">> :> IntValue(1)) @@ (<<"y">> :> IntValue(2))))

\* C2: a field whose value contains a '(' ... ')' pair is mapped to the
\* mapping that convert gives for the text strictly between the value's first
\* '(' and last ')', at every nesting level: the nested call is given that
\* text, it ends by returning its mapping, and the field's key is bound to
\* that mapping; Req(inner:Inner(x:1,y:2)) gives {"inner": {"x": 1, "y": 2}}.
C2_NestedValueIsConvertOfInner ==
    /\ [][NestedCallStarts =>
            stack'[Len(stack')].arg = BetweenParens(ValueString(TopField))]_vars
    /\ [][NestedCallEnds =>
            /\ Top.idx > Len(Top.field_strings)
            /\ stack'[Len(stack')].acc[_get_key(CallerField)] = DictValue(Top.acc)]_vars
    /\ []((cpc = "done" /\ request_body = ExampleNested) =>
            (cresult.ok /\ cresult.m = ExampleNestedResult))

\* C3: whenever convert meets a field without ':', in the outermost call or
\* in a nested one, the whole convert call fails with the error; the failure
\* is never swallowed and no mapping is returned.
C3_MalformedFieldFailsCall ==
    [][(AtField /\ ~HasColon(TopField)) =>
          (cpc' = "done" /\ ~cresult'.ok /\ cresult'.t = "ValueError")]_vars

\* C8 as stated: _clean strips exactly when the text has a ':' and a '(' with
\* the first '(' before the first ':', and the result is then the text
\* strictly between the first '(' and the last ')'; otherwise it is unchanged.
C8_CleanStripsWhenWrapped ==
    \A k \in 1..Len(stack) :
        IF WrapperBeforeColon(stack[k].arg)
        THEN /\ Positions(stack[k].arg, ")") # {}
             /\ stack[k].cleaned = BetweenParens(stack[k].arg)
        ELSE stack[k].cleaned = stack[k].arg

\* C8 (amended): _clean strips exactly when the text has a ':', a '(' and a
\* ')' with the first '(' before the first ':'; the result is then the text
\* strictly between the first '(' and the last ')', which is empty when that
\* ')' comes before the '('.  Otherwise, a text without ')' included, the
\* text is unchanged.
C8_CleanStripsWhenWrappedAndClosed ==
    \A k \in 1..Len(stack) :
        IF WrapperBeforeColon(stack[k].arg) /\ Positions(stack[k].arg, ")") # {}
        THEN stack[k].cleaned = BetweenParens(stack[k].arg)
        ELSE stack[k].cleaned = stack[k].arg

\* the outermost call's text was stripped of a wrapper that holds a second
\* ')', and the text of the call nested in it was left unchanged
C8_Witness ==
    /\ Len(stack) >= 2
    /\ WrapperBeforeColon(stack[1].arg)
    /\ Cardinality(Positions(stack[1].arg, ")")) >= 2
    /\ stack[1].cleaned # stack[1].arg
    /\ stack[2].cleaned = stack[2].arg

\* C9: convert terminates: each nested call of convert gets a text strictly
\* shorter than the field substring it was taken from, the depth of the
\* recursion is at most the length of the input, and every call ends, with a
\* mapping or with a raised error.
C9_ConvertTerminates ==
    /\ [][NestedCallStarts => Len(stack'[Len(stack')].arg) < Len(TopField)]_vars
    /\ [](Len(stack) - 1 <= Len(request_body))
    /\ <>(cpc = "done")
    /\ [](cpc = "done" => (stack = <<>> /\ cresult.t \in {"dict", "ValueError"}))

\* two nested calls are active inside the outermost one
C9_Witness == cpc = "run" /\ Len(stack) = 3

----------------------------------------------------------------------------
(* The IDL text.  A field line INDEX: [optional|required]? TYPE NAME          *)
(* [= DEFAULT]? is the record of its parts: the index is kept as its          *)
(* characters, the other parts are single tokens, and an absent part is "".  *)
(* Lines start at the beginning of a line, without leading white space.      *)

FieldLine(index, qualifier, type, name, default) ==
    [index |-> index, qualifier |-> qualifier, type |-> type, name |-> name,
     default |-> default]

\* fields_regex on one line: after ^[\r\t ]* the group ([\d+]) takes exactly
\* one character, a digit or '+', and ':' has to follow it
FieldsRegexMatches(line) ==
    Len(line.index) = 1 /\ line.index[1] \in Digits \cup {"+"}

\* the groups of a match: (index, qualifier, type, name, default)
FieldMatch(line) ==
    <<line.index, line.qualifier, line.type, line.name, line.default>>

\* fields_regex.findall over the lines of a text
RECURSIVE fields_regex_findall(_)
fields_regex_findall(lines) ==
    IF Len(lines) = 0 THEN <<>>
    ELSE (IF FieldsRegexMatches(lines[1]) THEN <<FieldMatch(lines[1])>> ELSE <<>>)
             \o fields_regex_findall(Tail(lines))

\* ThriftStruct.Field(index, field_type, name, oneway=..., default=...)
ThriftStruct_Field(index, field_type, name, oneway, default) ==
    [index |-> index, field_type |-> field_type, name |-> name,
     oneway |-> oneway, default |-> default]

NoneValue == [t |-> "None"]

_construct_field_from_field_match(field_match) ==
    LET index == field_match[1]
        qualifier == field_match[2]
        return_type == field_match[3]
        name == field_match[4]
        default == field_match[5]
        oneway == (qualifier = "oneway")
    IN  ThriftStruct_Field(index, return_type, name, oneway,
                           IF default # "" THEN StrValue(default) ELSE NoneValue)

\* {field.name: field for field in fields}: a later field of a name replaces
\* the earlier one
RECURSIVE DictByName(_)
DictByName(items) ==
    IF Len(items) = 0 THEN EmptyDict
    ELSE DictSet(DictByName(SubSeq(items, 1, Len(items) - 1)),
                 items[Len(items)].name, items[Len(items)])

\* [f(x) for x in xs]
ConstructFields(matches) ==
    [k \in 1..Len(matches) |-> _construct_field_from_field_match(matches[k])]

_parse_fields_from_struct_definition(lines) ==
    DictByName(ConstructFields(fields_regex_findall(lines)))

\* _parse_fields_from_fields_string on the pieces that _split_fields_string
\* cuts the parameter list into: the first match of each piece, a piece
\* without a match dropped
_parse_fields_from_fields_string(pieces) ==
    ConstructFields(fields_regex_findall(pieces))

----------------------------------------------------------------------------
(* Specification of the field list parser *)

\* longest index text of an enumerated field line
MaxIndexLen == 2

\* most lines of an enumerated struct definition
MaxLines == 2

IndexTexts == UNION {[1..k -> {"1", "0"}] : k \in 1..MaxIndexLen}

Qualifiers == {"", "optional", "required"}

FieldNames == {"a", "b"}

FieldLines ==
    {FieldLine(x, q, "i32", n, "") : x \in IndexTexts, q \in Qualifiers, n \in FieldNames}
        \cup {FieldLine(<<"+">>, "", "i32", "a", ""), FieldLine(<<"5">>, "", "string", "b", "7")}

Definitions == UNION {[1..k -> FieldLines] : k \in 0..MaxLines}

FieldsInit ==
    /\ definition \in Definitions
    /\ fields = EmptyDict
    /\ fpc = "call"
    /\ SplitIdle /\ ConvertIdle /\ ParserIdle

ParseFields ==
    /\ fpc = "call"
    /\ fields' = _parse_fields_from_struct_definition(definition)
    /\ fpc' = "done"
    /\ UNCHANGED definition
    /\ UNCHANGED <<splitVars, convertVars, parserVars>>

FieldsNext == ParseFields

SpecFields == FieldsInit /\ [][FieldsNext]_vars

----------------------------------------------------------------------------
(* Properties of the field list parser *)

\* line k is the last line of the definition that declares its name
LastOfName(k) ==
    \A j \in (k + 1)..Len(definition) : definition[j].name # definition[k].name

AllDigits(text) == Len(text) >= 1 /\ \A p \in 1..Len(text) : text[p] \in Digits

\* C4: every field line whose INDEX is a non-empty sequence of digits, one
\* digit or several, gives a Field for its NAME whose index is exactly the
\* declared INDEX text: no declared field is dropped and no index truncated.
C4_DeclaredIndexIsKept ==
    fpc = "done" =>
        \A k \in 1..Len(definition) :
            (AllDigits(definition[k].index) /\ LastOfName(k)) =>
                /\ definition[k].name \in DOMAIN fields
                /\ fields[definition[k].name].index = definition[k].index

\* the same line with another qualifier
WithQualifier(line, q) == [line EXCEPT !.qualifier = q]

\* C6: the Field of a matched line records the line's qualifier as a
\* tri-state: required, optional and no qualifier give three distinguishable
\* Field values for otherwise identical lines.
C6_QualifierIsRecorded ==
    fpc = "done" =>
        \A k \in 1..Len(definition) :
            (FieldsRegexMatches(definition[k]) /\ LastOfName(k)) =>
                \A q \in Qualifiers \ {definition[k].qualifier} :
                    _parse_fields_from_struct_definition(
                        <<WithQualifier(definition[k], q)>>)[definition[k].name]
                      # fields[definition[k].name]

----------------------------------------------------------------------------
(* ThriftParser.parse and the lookups.  The file is its top-level blocks in  *)
(* order; a block is its keyword, its name and the lines of its body.  A     *)
(* line of a service body either matches endpoints_regex, and is the record  *)
(* of the groups with its parameter list cut into pieces, or does not.       *)

StructBlock(name, lines) == [kind |-> "struct", name |-> name, lines |-> lines]
ServiceBlock(name, lines) == [kind |-> "service", name |-> name, lines |-> lines]
EnumBlock(name) == [kind |-> "enum", name |-> name, lines |-> <<>>]

EndpointLine(oneway, return_type, name, params) ==
    [matches |-> TRUE, oneway |-> oneway, return_type |-> return_type,
     name |-> name, params |-> params]

\* a line of a service body that endpoints_regex does not match
OtherLine == [matches |-> FALSE]

\* ThriftStruct(name, fields)
ThriftStruct(name, struct_fields) == [name |-> name, fields |-> struct_fields]

\* ThriftService(name, endpoints)
ThriftService(name, endpoints) == [name |-> name, endpoints |-> endpoints]

\* ThriftService.Endpoint(return_type, name, fields, oneway=...)
ThriftService_Endpoint(return_type, name, endpoint_fields, oneway) ==
    [return_type |-> return_type, name |-> name, fields |-> endpoint_fields,
     oneway |-> oneway]

\* {name: definition for (definition, name) in regex.findall(content)} for the
\* blocks of one keyword: a later block of a name replaces the earlier one
RECURSIVE DefinitionsByName(_, _)
DefinitionsByName(content, kind) ==
    IF Len(content) = 0 THEN EmptyDict
    ELSE LET rest == DefinitionsByName(SubSeq(content, 1, Len(content) - 1), kind)
             block == content[Len(content)]
         IN  IF block.kind = kind THEN DictSet(rest, block.name, block.lines) ELSE rest

_parse_structs(content) ==
    LET definitions_by_name == DefinitionsByName(content, "struct")
    IN  [name \in DOMAIN definitions_by_name |->
            ThriftStruct(name,
                _parse_fields_from_struct_definition(definitions_by_name[name]))]

\* endpoints_regex.findall(definition)
endpoints_regex_findall(lines) == SelectSeq(lines, LAMBDA line : line.matches)

\* line 81: zip(*endpoint_matches) of an empty list is empty, and unpacking it
\* into four names raises ValueError
EndpointsRaise(lines) == Len(endpoints_regex_findall(lines)) = 0

\* _parse_endpoints_from_service_definition when line 81 does not raise
_parse_endpoints_from_service_definition(lines) ==
    LET endpoint_matches == endpoints_regex_findall(lines)
        endpoints ==
            [k \in 1..Len(endpoint_matches) |->
                ThriftService_Endpoint(
                    endpoint_matches[k].return_type,
                    endpoint_matches[k].name,
                    DictByName(_parse_fields_from_fields_string(endpoint_matches[k].params)),
                    endpoint_matches[k].oneway)]
    IN  DictByName(endpoints)

\* _parse_services raises when one of its definitions does
ServicesRaise(content) ==
    \E name \in DOMAIN DefinitionsByName(content, "service") :
        EndpointsRaise(DefinitionsByName(content, "service")[name])

_parse_services(content) ==
    LET definitions_by_name == DefinitionsByName(content, "service")
    IN  [name \in DOMAIN definitions_by_name |->
            ThriftService(name,
                _parse_endpoints_from_service_definition(definitions_by_name[name]))]

_parse_enums(content) ==
    {content[k].name : k \in {j \in 1..Len(content) : content[j].kind = "enum"}}

\* ThriftParser.Result(structs, services, enums)
Result(structs, services, enums) ==
    [t |-> "Result", structs |-> structs, services |-> services, enums |-> enums]

\* parse(thrift_path): _thrift_content is set before the parsing starts, and
\* _result only when nothing has raised
Parse ==
    /\ ppc \in {"new", "parsed", "failed"}
    /\ thrift_content' = thrift_file
    /\ IF ServicesRaise(thrift_file)
       THEN /\ ppc' = "failed"
            /\ UNCHANGED parser_result
       ELSE /\ ppc' = "parsed"
            /\ parser_result' = Result(_parse_structs(thrift_file),
                                       _parse_services(thrift_file),
                                       _parse_enums(thrift_file))
    /\ lookup' = [op |-> "parse", raised |-> IF ServicesRaise(thrift_file)
                                               THEN "ValueError" ELSE "",
                  after_failure |-> FALSE]
    /\ UNCHANGED thrift_file
    /\ UNCHANGED <<splitVars, convertVars, fieldsVars>>

Raised(error) == [raised |-> error]
Returned(value) == [raised |-> "", value |-> value]

\* a lookup that answers an absent struct with no fields
get_fields_for_struct_name_OrEmpty(result, struct_name) ==
    IF result.t = "None" THEN Raised("AttributeError")
    ELSE IF struct_name \notin DOMAIN result.structs THEN Returned(EmptyDict)
    ELSE Returned(result.structs[struct_name].fields)

\* self._result.structs[struct_name].fields
get_fields_for_struct_name(result, struct_name) ==
    IF result.t = "None" THEN Raised("AttributeError")
    ELSE IF struct_name \notin DOMAIN result.structs THEN Raised("KeyError")
    ELSE Returned(result.structs[struct_name].fields)

\* self._result.services[service_name].endpoints[method_name].fields
get_fields_for_endpoint(result, service_name, method_name) ==
    IF result.t = "None" THEN Raised("AttributeError")
    ELSE IF service_name \notin DOMAIN result.services THEN Raised("KeyError")
    ELSE IF method_name \notin DOMAIN result.services[service_name].endpoints
         THEN Raised("KeyError")
    ELSE Returned(result.services[service_name].endpoints[method_name].fields)

has_struct(result, struct_name) ==
    IF result.t = "None" THEN Raised("AttributeError")
    ELSE Returned(struct_name \in DOMAIN result.structs)

has_enum(result, enum_name) ==
    IF result.t = "None" THEN Raised("AttributeError")
    ELSE Returned(enum_name \in result.enums)

BlockNames == {"A", "B"}
LookupNames == BlockNames \cup {"Missing"}
MethodNames == {"ping", "get", "missing"}

\* the callers' record of a lookup; the parser's own state is not written
Lookup(op, names, outcome) ==
    /\ ppc \in {"new", "parsed", "failed"}
    /\ lookup' = [op |-> op, names |-> names, outcome |-> outcome,
                  after_failure |-> IF lookup.op \in {"none", "parse"}
                                    THEN outcome.raised # ""
                                    ELSE lookup.after_failure \/ outcome.raised # ""]
    /\ UNCHANGED <<thrift_file, thrift_content, parser_result, ppc>>
    /\ UNCHANGED <<splitVars, convertVars, fieldsVars>>

GetFieldsForStructName ==
    \E name \in LookupNames :
        Lookup("get_fields_for_struct_name", <<name>>,
               get_fields_for_struct_name(parser_result, name))

GetFieldsForEndpoint ==
    \E service \in LookupNames, method \in MethodNames :
        Lookup("get_fields_for_endpoint", <<service, method>>,
               get_fields_for_endpoint(parser_result, service, method))

HasStruct ==
    \E name \in LookupNames :
        Lookup("has_struct", <<name>>, has_struct(parser_result, name))

HasEnum ==
    \E name \in LookupNames :
        Lookup("has_enum", <<name>>, has_enum(parser_result, name))

----------------------------------------------------------------------------
(* Specification of the parser *)

\* most top-level blocks of an enumerated file
MaxBlocks == 2

StructBodies ==
    {<<>>,
     <<FieldLine(<<"1">>, "", "i32", "a", "")>>,
     <<FieldLine(<<"1">>, "optional", "i32", "a", ""),
       FieldLine(<<"2">>, "", "string", "b", "7")>>}

PingLine == EndpointLine("", "void", "ping", <<>>)

GetLine ==
    EndpointLine("oneway", "void", "get",
                 <<FieldLine(<<"1">>, "", "i32", "a", ""),
                   FieldLine(<<"1", "0">>, "required", "string", "b", "")>>)

ServiceBodies ==
    {<<>>, <<OtherLine>>, <<PingLine>>, <<OtherLine, GetLine>>, <<PingLine, GetLine>>}

Blocks ==
    {StructBlock(n, b) : n \in BlockNames, b \in StructBodies}
        \cup {ServiceBlock(n, b) : n \in BlockNames, b \in ServiceBodies}
        \cup {EnumBlock(n) : n \in BlockNames}

Files == UNION {[1..k -> Blocks] : k \in 0..MaxBlocks}

ParserInit ==
    /\ thrift_file \in Files
    /\ thrift_content = NoneValue
    /\ parser_result = NoneValue
    /\ lookup = [op |-> "none"]
    /\ ppc = "new"
    /\ SplitIdle /\ ConvertIdle /\ FieldsIdle

ParserNext ==
    \/ Parse \/ GetFieldsForStructName \/ GetFieldsForEndpoint \/ HasStruct \/ HasEnum

SpecParser == ParserInit /\ [][ParserNext]_vars

----------------------------------------------------------------------------
(* Properties of the parser *)

\* the names of the blocks of a keyword in the file
BlockNamesOf(kind) ==
    {thrift_file[k].name : k \in {j \in 1..Len(thrift_file) : thrift_file[j].kind = kind}}

\* block k is the last block of its keyword and name
LastBlockOfName(k) ==
    \A j \in (k + 1)..Len(thrift_file) :
        ~(thrift_file[j].kind = thrift_file[k].kind
            /\ thrift_file[j].name = thrift_file[k].name)

\* C5: a line of a service body that fails the endpoint pattern is skipped
\* without any error, also when no line of the service matches: parse then
\* still returns a result that holds the service with an empty endpoint
\* mapping, together with every other struct, service and enum.
C5_ServiceWithoutEndpointsIsParsed ==
    ppc \in {"parsed", "failed"} =>
        /\ ppc = "parsed"
        /\ parser_result.t = "Result"
        /\ DOMAIN parser_result.structs = BlockNamesOf("struct")
        /\ DOMAIN parser_result.services = BlockNamesOf("service")
        /\ parser_result.enums = BlockNamesOf("enum")
        /\ \A k \in 1..Len(thrift_file) :
              (thrift_file[k].kind = "service" /\ LastBlockOfName(k)
                 /\ \A j \in 1..Len(thrift_file[k].lines) : ~thrift_file[k].lines[j].matches)
                => parser_result.services[thrift_file[k].name].endpoints = EmptyDict

\* C7: after a successful parse, get_fields_for_struct_name(name) fails with
\* a lookup failure exactly when has_struct(name) is false, that is when the
\* file has no struct of that name, and get_fields_for_endpoint fails
\* whenever the service or the method is absent; an absent name is never
\* answered with a mapping, a lookup leaves the held result unchanged, and a
\* lookup of a present name returns the fields held in the result, after a
\* failed lookup as before it.
C7_LookupFailsExactlyWhenAbsent ==
    /\ []((ppc = "parsed" /\ lookup.op = "get_fields_for_struct_name") =>
            LET name == lookup.names[1]
                failed == lookup.outcome.raised # ""
            IN  /\ failed <=> (has_struct(parser_result, name) = Returned(FALSE))
                /\ failed <=> (name \notin BlockNamesOf("struct"))
                /\ failed => lookup.outcome = Raised("KeyError")
                /\ ~failed => lookup.outcome.value = parser_result.structs[name].fields)
    /\ []((ppc = "parsed" /\ lookup.op = "get_fields_for_endpoint") =>
            LET service == lookup.names[1]
                method == lookup.names[2]
                failed == lookup.outcome.raised # ""
                absent == \/ service \notin DOMAIN parser_result.services
                          \/ method \notin DOMAIN parser_result.services[service].endpoints
            IN  /\ absent => lookup.outcome = Raised("KeyError")
                /\ service \notin BlockNamesOf("service") => failed
                /\ ~failed =>
                     lookup.outcome.value =
                        parser_result.services[service].endpoints[method].fields)
    /\ [][(ppc = "parsed" /\ lookup'.op # "parse" /\ lookup' # lookup)
            => parser_result' = parser_result]_vars

\* a struct's fields are returned after an earlier lookup has failed
C7_Witness ==
    /\ ppc = "parsed"
    /\ lookup.op = "get_fields_for_struct_name"
    /\ lookup.after_failure
    /\ lookup.outcome.raised = ""
    /\ lookup.outcome.value # EmptyDict
    /\ BlockNamesOf("struct") # LookupNames

----------------------------------------------------------------------------
(* What the code does where a property above fails *)

\* in the outermost call a field without ':' does end convert with the error
TopLevelMalformedRaises ==
    [][(AtField /\ ~HasColon(TopField) /\ Len(stack) = 1) =>
          (cpc' = "done" /\ ~cresult'.ok /\ cresult'.t = "ValueError")]_vars

\* a nested call that returns does bind the field's key to its mapping
ReturnedNestedValueIsMapping ==
    [][(NestedCallEnds /\ Top.idx > Len(Top.field_strings)) =>
          stack'[Len(stack')].acc[_get_key(CallerField)] = DictValue(Top.acc)]_vars

\* a field line with a one-digit index does keep its index
OneDigitIndexIsKept ==
    fpc = "done" =>
        \A k \in 1..Len(definition) :
            (AllDigits(definition[k].index) /\ Len(definition[k].index) = 1
               /\ LastOfName(k)) =>
                /\ definition[k].name \in DOMAIN fields
                /\ fields[definition[k].name].index = definition[k].index

\* a parse that returns does hold every block of the file
ReturnedResultHoldsEveryBlock ==
    ppc = "parsed" => C5_ServiceWithoutEndpointsIsParsed

====
